---- MODULE Spec2Model ----
(***************************************************************************)
(* Model of the schema-to-type synthesis of MCPGenerator (mcp-generator.ts) *)
(* and of the component name index built by OpenAPIParser.                  *)
(*                                                                          *)
(* Strings produced by the program (JSON.stringify keys, type names) are    *)
(* modelled as TLA+ strings built by concatenation.  Type and validator     *)
(* expressions, which the program renders as text, are kept as trees so     *)
(* that the names they refer to can be read back.                           *)
(***************************************************************************)
EXTENDS Integers, Sequences, FiniteSets, TLC

\* ------------------------------------------------------------------ bounds
MaxOps == 2      \* endpoints in one request
MaxSynth == 2    \* synthesizer calls made one after the other on one generator

\* ----------------------------------------------------------- schema nodes
\* A JSON-schema node as the generator reads it (type / enum / items /
\* properties / required / nullable).  An absent key is an empty field with
\* its has-flag FALSE; `properties` keeps the insertion order of its keys.
Node(t) ==
    [type |-> t, hasEnum |-> FALSE, enum |-> <<>>, items |-> <<>>,
     hasProps |-> FALSE, props |-> <<>>, required |-> <<>>, nullable |-> FALSE]

Prim(t) == Node(t)
Obj(props, required) ==
    [Node("object") EXCEPT !.hasProps = TRUE, !.props = props, !.required = required]
Arr(item) == [Node("array") EXCEPT !.items = <<item>>]
EnumOf(values) == [Node("string") EXCEPT !.hasEnum = TRUE, !.enum = values]
P(n, s) == [name |-> n, schema |-> s]

\* ------------------------------------------------------- generic helpers
RECURSIVE Join(_, _)
Join(seq, sep) ==
    IF seq = <<>> THEN ""
    ELSE IF Len(seq) = 1 THEN seq[1]
    ELSE seq[1] \o sep \o Join(Tail(seq), sep)

Range(seq) == {seq[i] : i \in 1..Len(seq)}

RECURSIVE SeqsUpTo(_, _)
SeqsUpTo(S, n) ==
    IF n = 0 THEN {<<>>}
    ELSE LET shorter == SeqsUpTo(S, n - 1)
         IN  shorter \cup {Append(q, x) : q \in {r \in shorter : Len(r) = n - 1}, x \in S}

\* ------------------------------------------------------ JSON.stringify key
\* JSON.stringify(schema): keys in insertion order, absent keys omitted.
RECURSIVE Stringify(_), StringifyProps(_)
Stringify(s) ==
    "{" \o Join(
        (IF s.type # "" THEN <<"type:" \o s.type>> ELSE <<>>)
        \o (IF s.hasEnum THEN <<"enum:[" \o Join(s.enum, ",") \o "]">> ELSE <<>>)
        \o (IF s.items # <<>> THEN <<"items:" \o Stringify(s.items[1])>> ELSE <<>>)
        \o (IF s.hasProps THEN <<"properties:{" \o StringifyProps(s.props) \o "}">> ELSE <<>>)
        \o (IF s.required # <<>> THEN <<"required:[" \o Join(s.required, ",") \o "]">> ELSE <<>>)
        \o (IF s.nullable THEN <<"nullable:true">> ELSE <<>>), ",") \o "}"
StringifyProps(props) ==
    IF props = <<>> THEN ""
    ELSE (props[1].name \o ":" \o Stringify(props[1].schema))
         \o (IF Len(props) > 1 THEN "," \o StringifyProps(Tail(props)) ELSE "")

\* Structural equality of schema nodes as the data model defines it: same
\* shape, same property set, same nested shapes, `required` compared as a set.
PropNames(s) == {s.props[i].name : i \in 1..Len(s.props)}
PropOf(s, n) == (CHOOSE i \in 1..Len(s.props) : s.props[i].name = n)
RECURSIVE StructEq(_, _)
StructEq(a, b) ==
    /\ a.type = b.type
    /\ a.hasEnum = b.hasEnum
    /\ a.enum = b.enum
    /\ a.nullable = b.nullable
    /\ Len(a.items) = Len(b.items)
    /\ (a.items # <<>> => StructEq(a.items[1], b.items[1]))
    /\ a.hasProps = b.hasProps
    /\ PropNames(a) = PropNames(b)
    /\ \A n \in PropNames(a) : StructEq(a.props[PropOf(a, n)].schema, b.props[PropOf(b, n)].schema)
    /\ Range(a.required) = Range(b.required)

\* ------------------------------------------------- component name index
\* OpenAPIParser.extractComponentNames: registry entries in iteration order,
\* componentMap[JSON.stringify(schema)] = name.
RECURSIVE ExtractComponentNames(_, _)
ExtractComponentNames(registry, componentMap) ==
    IF registry = <<>> THEN componentMap
    ELSE LET schemaKey == Stringify(registry[1].schema)
             name == registry[1].name
         IN  ExtractComponentNames(Tail(registry),
                 [k \in DOMAIN componentMap \cup {schemaKey} |->
                     IF k = schemaKey THEN name ELSE componentMap[k]])

EmptyMap == [k \in {} |-> ""]

\* this.componentSchemas[schemaKey], read for its truthiness
ComponentNameOf(comp, schemaKey) ==
    IF schemaKey \in DOMAIN comp THEN comp[schemaKey] ELSE ""

\* ------------------------------------------------------------ type table
\* extractedSchemas: a Map in insertion order, one entry per key.
Has(extracted, schemaKey) == \E i \in 1..Len(extracted) : extracted[i].key = schemaKey
Get(extracted, schemaKey) ==
    extracted[CHOOSE i \in 1..Len(extracted) : extracted[i].key = schemaKey]
MapSet(extracted, schemaKey, entry) ==
    IF Has(extracted, schemaKey)
    THEN [i \in 1..Len(extracted) |->
             IF extracted[i].key = schemaKey THEN entry ELSE extracted[i]]
    ELSE Append(extracted, entry)

ExtractThreshold == 3

ShouldExtractAtLeastTwo(schema) ==
    IF ~schema.hasProps THEN FALSE ELSE Len(schema.props) >= 2

\* shouldExtractNestedSchema
ShouldExtractNestedSchema(schema) ==
    IF ~schema.hasProps THEN FALSE ELSE Len(schema.props) >= ExtractThreshold

NestedTypeName(n) == "NestedType" \o ToString(n)

\* The synthesis context threaded through the synthesizers: the generator
\* fields they read and write (comp, extracted, counter) and `log`, the
\* record of the extractNestedSchema calls of the run.

\* this.extractedSchemas.set(schemaKey, { schema, name }) and the returned name
Register(ctx, schemaKey, schema, name) ==
    [name |-> name,
     ctx |-> [ctx EXCEPT !.extracted = MapSet(@, schemaKey,
                 [key |-> schemaKey, schema |-> schema, name |-> name])]]

\* name = `NestedType${++this.schemaCounter}`, then the registration
RegisterFresh(ctx, schemaKey, schema) ==
    Register([ctx EXCEPT !.counter = @ + 1], schemaKey, schema,
             NestedTypeName(ctx.counter + 1))

\* extractNestedSchema without its two lookups: every call adds an entry
ExtractAlwaysFresh(ctx, schema) ==
    [name |-> NestedTypeName(ctx.counter + 1),
     ctx |-> [ctx EXCEPT
                 !.counter = @ + 1,
                 !.extracted = Append(@, [key |-> Stringify(schema), schema |-> schema,
                                          name |-> NestedTypeName(ctx.counter + 1)])]]

\* the body of extractNestedSchema without the component name lookup
LookupWithoutComponents(ctx, schema, schemaKey) ==
    IF Has(ctx.extracted, schemaKey)
    THEN [name |-> Get(ctx.extracted, schemaKey).name, ctx |-> ctx]
    ELSE RegisterFresh(ctx, schemaKey, schema)

\* extractNestedSchema without the component name lookup
ExtractIgnoringComponents(ctx, schema) ==
    LookupWithoutComponents(ctx, schema, Stringify(schema))

\* extractNestedSchema without the `already extracted` lookup: a fingerprint
\* met again gets a new fallback name
ExtractWithoutReuse(ctx, schema) ==
    RegisterFresh(ctx, Stringify(schema), schema)

\* the body of extractNestedSchema with the counter incremented for
\* component-named schemas too
LookupOrRegisterCounting(ctx, schema, schemaKey) ==
    IF ComponentNameOf(ctx.comp, schemaKey) # ""
    THEN IF ~Has(ctx.extracted, schemaKey)
         THEN Register([ctx EXCEPT !.counter = @ + 1], schemaKey, schema,
                       ComponentNameOf(ctx.comp, schemaKey))
         ELSE [name |-> ComponentNameOf(ctx.comp, schemaKey), ctx |-> ctx]
    ELSE IF Has(ctx.extracted, schemaKey)
    THEN [name |-> Get(ctx.extracted, schemaKey).name, ctx |-> ctx]
    ELSE RegisterFresh(ctx, schemaKey, schema)

\* the body of extractNestedSchema after schemaKey = JSON.stringify(schema)
LookupOrRegister(ctx, schema, schemaKey) ==
    IF ComponentNameOf(ctx.comp, schemaKey) # ""
    THEN IF ~Has(ctx.extracted, schemaKey)
         THEN Register(ctx, schemaKey, schema, ComponentNameOf(ctx.comp, schemaKey))
         ELSE [name |-> ComponentNameOf(ctx.comp, schemaKey), ctx |-> ctx]
    ELSE IF Has(ctx.extracted, schemaKey)
    THEN [name |-> Get(ctx.extracted, schemaKey).name, ctx |-> ctx]
    ELSE RegisterFresh(ctx, schemaKey, schema)

\* extractNestedSchema
ExtractNestedSchema(ctx, schema) ==
    LookupOrRegister(ctx, schema, Stringify(schema))

\* The log entry of a call of extractNestedSchema that took ctx to r.ctx:
\* the key it was given, the name it returned and whether it changed the
\* table or the counter.
Logged(ctx, schemaKey, r) ==
    [name |-> r.name,
     ctx |-> [r.ctx EXCEPT !.log = Append(@,
                 [key |-> schemaKey, name |-> r.name,
                  changed |-> (r.ctx.extracted # ctx.extracted
                               \/ r.ctx.counter # ctx.counter)])]]

\* A call of extractNestedSchema by a synthesizer, recorded in the log.
CallExtract(ctx, schema) ==
    Logged(ctx, Stringify(schema), ExtractNestedSchema(ctx, schema))

\* ------------------------------------------------------- type expressions
\* A TypeScript type or a Zod validator expression as a tree.  kind:
\*   "prim" (name), "enum" (lits), "array" (item), "ref" (name),
\*   "inline" (fields), "record", "unknown"; nullable marks `| null` /
\*   `.nullable()`.
TE(kind) ==
    [kind |-> kind, name |-> "", lits |-> <<>>, item |-> <<>>, fields |-> <<>>,
     nullable |-> FALSE]
TPrim(n) == [TE("prim") EXCEPT !.name = n]
TRef(n) == [TE("ref") EXCEPT !.name = n]
TArray(item) == [TE("array") EXCEPT !.item = <<item>>]
TEnum(lits) == [TE("enum") EXCEPT !.lits = lits]
TInline(fields) == [TE("inline") EXCEPT !.fields = fields]
WithNullable(s, t) == IF s.nullable THEN [t EXCEPT !.nullable = TRUE] ELSE t

\* Names an expression refers to.
RECURSIVE Refs(_)
Refs(t) ==
    (IF t.kind = "ref" THEN {t.name} ELSE {})
    \cup (IF t.item # <<>> THEN Refs(t.item[1]) ELSE {})
    \cup UNION {Refs(t.fields[i].t) : i \in 1..Len(t.fields)}

\* The result of a synthesizer: the expression and the context it leaves.
Result(s, t, ctx) == [t |-> WithNullable(s, t), ctx |-> ctx]
\* tsType = extractedName, for the call r of extractNestedSchema
NamedResult(s, r) == Result(s, TRef(r.name), r.ctx)
\* `${itemType}[]` / `z.array(${itemType})`, for the item result r
ArrayResult(s, r) == Result(s, TArray(r.t), r.ctx)
\* `{ ${props} }`, for the property list r
InlineResult(s, r) == Result(s, TInline(r.fields), r.ctx)
\* one more `name: type` entry in front of the entries of rest
Field(name, optional, t, rest) ==
    [fields |-> <<[name |-> name, optional |-> optional, t |-> t]>> \o rest.fields,
     ctx |-> rest.ctx]

\* schemaToTypeScript with every object extracted, whatever its properties
TypeScriptHoistingEveryObject(ctx, s) ==
    IF s.type = "object" THEN NamedResult(s, CallExtract(ctx, s))
    ELSE Result(s, TE("unknown"), ctx)

\* schemaToTypeScript
RECURSIVE SchemaToTypeScript(_, _), InlineProps(_, _), InlinePropsAfter(_, _)
SchemaToTypeScript(ctx, s) ==
    IF s.hasEnum THEN Result(s, TEnum(s.enum), ctx)
    ELSE IF s.type = "string" THEN Result(s, TPrim("string"), ctx)
    ELSE IF s.type \in {"integer", "number"} THEN Result(s, TPrim("number"), ctx)
    ELSE IF s.type = "boolean" THEN Result(s, TPrim("boolean"), ctx)
    ELSE IF s.type = "array" THEN
        IF s.items # <<>>
        THEN ArrayResult(s, SchemaToTypeScript(ctx, s.items[1]))
        ELSE Result(s, TArray(TE("unknown")), ctx)
    ELSE IF s.type = "object" THEN
        IF s.hasProps
        THEN IF ShouldExtractNestedSchema(s)
             THEN NamedResult(s, CallExtract(ctx, s))
             ELSE InlineResult(s, InlineProps(ctx, s.props))
        ELSE Result(s, TE("record"), ctx)
    ELSE Result(s, TE("unknown"), ctx)
\* the inline object's `name: propType` list, properties in source order
InlineProps(ctx, props) ==
    IF props = <<>> THEN [fields |-> <<>>, ctx |-> ctx]
    ELSE InlinePropsAfter(SchemaToTypeScript(ctx, props[1].schema), props)
\* the list once the first property has been synthesized as head
InlinePropsAfter(head, props) ==
    Field(props[1].name, FALSE, head.t, InlineProps(head.ctx, Tail(props)))

\* `${name}Schema`, the constant a validator declaration defines
SchemaConst(name) == name \o "Schema"

\* `${extractedName}Schema`, for the call r of extractNestedSchema
NamedZodResult(s, r) == Result(s, TRef(SchemaConst(r.name)), r.ctx)
\* `z.array(${extractedName}Schema)`
NamedZodArrayResult(s, r) == Result(s, TArray(TRef(SchemaConst(r.name))), r.ctx)

\* schemaToZodType with every array's items extracted, whatever their type
ZodTypeHoistingItems(ctx, s) ==
    IF s.type = "array" /\ s.items # <<>>
    THEN NamedZodArrayResult(s, CallExtract(ctx, s.items[1]))
    ELSE Result(s, TE("unknown"), ctx)

\* schemaToZodType
RECURSIVE SchemaToZodType(_, _)
SchemaToZodType(ctx, s) ==
    IF s.hasEnum THEN Result(s, TEnum(s.enum), ctx)
    ELSE IF s.type = "string" THEN Result(s, TPrim("string"), ctx)
    ELSE IF s.type \in {"integer", "number"} THEN Result(s, TPrim("number"), ctx)
    ELSE IF s.type = "boolean" THEN Result(s, TPrim("boolean"), ctx)
    ELSE IF s.type = "array" THEN
        IF s.items # <<>>
        THEN IF s.items[1].type = "object" /\ s.items[1].hasProps
                /\ ShouldExtractNestedSchema(s.items[1])
             THEN NamedZodArrayResult(s, CallExtract(ctx, s.items[1]))
             ELSE ArrayResult(s, SchemaToZodType(ctx, s.items[1]))
        ELSE Result(s, TArray(TE("unknown")), ctx)
    ELSE IF s.type = "object" THEN
        IF s.hasProps /\ ShouldExtractNestedSchema(s)
        THEN NamedZodResult(s, CallExtract(ctx, s))
        ELSE Result(s, TE("record"), ctx)
    ELSE Result(s, TE("unknown"), ctx)

\* ----------------------------------------------------------- declarations
\* One emitted declaration.  kind "interface" (fields), "type" (array type
\* alias, target), "alias" (target is a reference), "zod" (validator constant
\* with fields or target).  key is the fingerprint of the declared schema,
\* pass the step of generateTypeScriptFiles that emitted it.
Decl(kind, name, fields, target, key, pass) ==
    [kind |-> kind, name |-> name, fields |-> fields, target |-> target,
     key |-> key, pass |-> pass]

DeclRefs(d) ==
    UNION {Refs(d.fields[i].t) : i \in 1..Len(d.fields)}
    \cup UNION {Refs(d.target[i]) : i \in 1..Len(d.target)}

\* a declaration (or none) and the context left by its synthesis
Emitted(decl, ctx) == [decl |-> decl, ctx |-> ctx]
\* `export interface ${name} { ${props} }`, for the property list r
InterfaceDecl(name, s, pass, r) ==
    Emitted(<<Decl("interface", name, r.fields, <<>>, Stringify(s), pass)>>, r.ctx)
\* `export type ${name} = ${itemType}[];`, for the item result r
ArrayTypeDecl(name, s, pass, r) ==
    Emitted(<<Decl("type", name, <<>>, <<TArray(r.t)>>, Stringify(s), pass)>>, r.ctx)

\* the property loop of generateInterface
RECURSIVE InterfaceProps(_, _, _), InterfacePropsAfter(_, _, _)
InterfaceProps(ctx, props, required) ==
    IF props = <<>> THEN [fields |-> <<>>, ctx |-> ctx]
    ELSE InterfacePropsAfter(SchemaToTypeScript(ctx, props[1].schema), props, required)
\* the loop once the first property has been synthesized as head
InterfacePropsAfter(head, props, required) ==
    Field(props[1].name,
          (props[1].name \notin Range(required)) \/ props[1].schema.nullable,
          head.t,
          InterfaceProps(head.ctx, Tail(props), required))

\* generateInterface: decl is <<>> when the code returns ''
GenerateInterface(ctx, name, s, pass) ==
    IF s.type = "object" /\ s.hasProps
    THEN InterfaceDecl(name, s, pass, InterfaceProps(ctx, s.props, s.required))
    ELSE IF s.type = "array" /\ s.items # <<>>
    THEN ArrayTypeDecl(name, s, pass, SchemaToTypeScript(ctx, s.items[1]))
    ELSE Emitted(<<>>, ctx)

\* `export const ${name}Schema = z.object({ ${props} })`, for the property list r
ZodObjectDecl(name, s, r) ==
    Emitted(<<Decl("zod", SchemaConst(name), r.fields, <<>>, Stringify(s), "zod")>>, r.ctx)
\* `export const ${name}Schema = z.array(${itemType})`, for the item result r
ZodArrayDecl(name, s, r) ==
    Emitted(<<Decl("zod", SchemaConst(name), <<>>, <<TArray(r.t)>>, Stringify(s), "zod")>>,
            r.ctx)

\* the property loop of generateZodSchema
RECURSIVE ZodProps(_, _, _), ZodPropsAfter(_, _, _)
ZodProps(ctx, props, required) ==
    IF props = <<>> THEN [fields |-> <<>>, ctx |-> ctx]
    ELSE ZodPropsAfter(SchemaToZodType(ctx, props[1].schema), props, required)
\* the loop once the first property has been synthesized as head
ZodPropsAfter(head, props, required) ==
    Field(props[1].name, props[1].name \notin Range(required), head.t,
          ZodProps(head.ctx, Tail(props), required))

\* generateZodSchema
GenerateZodSchema(ctx, name, s) ==
    IF s.type = "object" /\ s.hasProps
    THEN ZodObjectDecl(name, s, ZodProps(ctx, s.props, s.required))
    ELSE IF s.type = "array" /\ s.items # <<>>
    THEN ZodArrayDecl(name, s, SchemaToZodType(ctx, s.items[1]))
    ELSE Emitted(<<>>, ctx)

\* --------------------------------------------------------------- endpoints
\* An operationId is kept as its '/'-separated segments, each a sequence of
\* lower-case words that '-' or '_' separate in the source text.
RECURSIVE Flatten(_)
Flatten(seqs) == IF seqs = <<>> THEN <<>> ELSE seqs[1] \o Flatten(Tail(seqs))

\* p.charAt(0).toUpperCase() + p.slice(1), on the words the model uses
Capitalize(w) ==
    CASE w = "get" -> "Get"
      [] w = "list" -> "List"
      [] w = "create" -> "Create"
      [] w = "delete" -> "Delete"
      [] w = "repo" -> "Repo"
      [] w = "repos" -> "Repos"
      [] w = "users" -> "Users"
      [] w = "orgs" -> "Orgs"
      [] w = "tags" -> "Tags"
      [] w = "pair" -> "Pair"
      [] w = "pairs" -> "Pairs"
      [] w = "team" -> "Team"
      [] w = "teams" -> "Teams"
      [] w = "fork" -> "Fork"
      [] w = "full" -> "Full"
      [] w = "find" -> "Find"
      [] w = "link" -> "Link"
      [] w = "nodes" -> "Nodes"
      [] OTHER -> w

RECURSIVE MapCapitalize(_)
MapCapitalize(words) ==
    IF words = <<>> THEN <<>> ELSE <<Capitalize(words[1])>> \o MapCapitalize(Tail(words))

\* toSnakeCase, on lower-case words: every separator becomes '_'
ToSnakeCase(operationId) == Join(Flatten(operationId), "_")

\* generateToolName (endpoints of the model carry an operationId)
GenerateToolName(endpoint) == ToSnakeCase(endpoint.operationId)

\* getResponseTypeName (operationId branch)
GetResponseTypeName(endpoint) ==
    Join(MapCapitalize(endpoint.operationId[Len(endpoint.operationId)]), "") \o "Response"

\* schemaToType
SchemaToType(schema) ==
    IF schema.type \in {"integer", "number"} THEN "number"
    ELSE IF schema.type = "boolean" THEN "boolean"
    ELSE IF schema.type = "object" THEN "object"
    ELSE IF schema.type = "array" THEN "array"
    ELSE "string"

ToolParam(name, schema, required) ==
    [name |-> name, type |-> SchemaToType(schema), required |-> required,
     hasEnum |-> schema.hasEnum, enum |-> schema.enum, items |-> schema.items]

RECURSIVE ParamsOf(_), BodyParamsOf(_, _)
ParamsOf(parameters) ==
    IF parameters = <<>> THEN <<>>
    ELSE <<ToolParam(parameters[1].name, parameters[1].schema, parameters[1].required)>>
         \o ParamsOf(Tail(parameters))
BodyParamsOf(props, required) ==
    IF props = <<>> THEN <<>>
    ELSE <<ToolParam(props[1].name, props[1].schema, props[1].name \in Range(required))>>
         \o BodyParamsOf(Tail(props), required)

\* extractParameters
ExtractParameters(endpoint) ==
    ParamsOf(endpoint.parameters)
    \o (IF endpoint.body # <<>> /\ endpoint.body[1].hasProps
        THEN BodyParamsOf(endpoint.body[1].props, endpoint.body[1].required)
        ELSE <<>>)

\* Object.fromEntries: a repeated name keeps its first position and its last value
RECURSIVE FromEntries(_, _)
FromEntries(params, acc) ==
    IF params = <<>> THEN acc
    ELSE LET p == params[1]
         IN  FromEntries(Tail(params),
                 IF \E i \in 1..Len(acc) : acc[i].name = p.name
                 THEN [i \in 1..Len(acc) |-> IF acc[i].name = p.name THEN p ELSE acc[i]]
                 ELSE Append(acc, p))

\* endpointToTool
EndpointToTool(endpoint) ==
    [name |-> GenerateToolName(endpoint),
     properties |-> FromEntries(ExtractParameters(endpoint), <<>>)]

RECURSIVE MapEndpointToTool(_)
MapEndpointToTool(endpoints) ==
    IF endpoints = <<>> THEN <<>>
    ELSE <<EndpointToTool(endpoints[1])>> \o MapEndpointToTool(Tail(endpoints))

\* findEndpointForTool: the first endpoint whose generated name is toolName
FindEndpointForTool(toolName, endpoints) ==
    LET hits == {i \in 1..Len(endpoints) : GenerateToolName(endpoints[i]) = toolName}
    IN  IF hits = {} THEN <<>>
        ELSE <<endpoints[CHOOSE i \in hits : \A j \in hits : i <= j]>>

\* responses?.[status]?.content?.['application/json']?.schema
ResponseAt(responses, status) ==
    LET hits == {i \in 1..Len(responses) : responses[i].status = status}
    IN  IF hits = {} THEN <<>> ELSE responses[CHOOSE i \in hits : TRUE].schema

\* the schema of the first response that has one, whatever its status
ResponseSchemaAnyStatus(endpoint) ==
    LET hits == {i \in 1..Len(endpoint.responses) : endpoint.responses[i].schema # <<>>}
    IN  IF hits = {} THEN <<>>
        ELSE endpoint.responses[CHOOSE i \in hits : \A j \in hits : i <= j].schema

\* responseSchema of the tools mapping: the 200 schema, else the 201 schema
ResponseSchemaOf(endpoint) ==
    IF ResponseAt(endpoint.responses, "200") # <<>>
    THEN ResponseAt(endpoint.responses, "200")
    ELSE ResponseAt(endpoint.responses, "201")

\* the schema the tools mapping rebuilds from a tool parameter
ParamSchema(toolParam) ==
    [Node(toolParam.type) EXCEPT
        !.hasEnum = toolParam.hasEnum, !.enum = toolParam.enum, !.items = toolParam.items]

\* the Zod types of a tool's parameters, each from the reconstructed
\* {type, enum, items} schema
RECURSIVE ParamZodTypes(_, _), ParamZodTypesAfter(_, _)
ParamZodTypes(ctx, params) ==
    IF params = <<>> THEN [zods |-> <<>>, ctx |-> ctx]
    ELSE ParamZodTypesAfter(SchemaToZodType(ctx, ParamSchema(params[1])), params)
\* one more parameter entry in front of the entries of rest
ZodEntry(name, zodType, rest) ==
    [zods |-> <<[name |-> name, zodType |-> zodType]>> \o rest.zods, ctx |-> rest.ctx]
\* the list once the first parameter has been synthesized as head
ParamZodTypesAfter(head, params) ==
    ZodEntry(params[1].name, head.t, ParamZodTypes(head.ctx, Tail(params)))

\* ------------------------------------------------------- input universe
Str == Prim("string")
Num == Prim("number")
\* a 3-property object, and the same shape with its keys inserted in another order
Owner == Obj(<<P("login", Str), P("id", Num), P("type", Str)>>, <<"login", "id">>)
OwnerPerm == Obj(<<P("id", Num), P("login", Str), P("type", Str)>>, <<"id", "login">>)
\* a 2-property object
Pair == Obj(<<P("k", Str), P("v", Str)>>, <<"k">>)
Repo == Obj(<<P("id", Num), P("name", Str), P("owner", Owner)>>, <<"id", "name", "owner">>)
Org == Obj(<<P("id", Num), P("slug", Str), P("repo", Repo)>>, <<"id">>)
Team == Obj(<<P("lead", Owner), P("deputy", Owner), P("name", Str)>>, <<"lead">>)
PairHolder == Obj(<<P("pair", Pair), P("n", Num), P("s", Str)>>, <<"pair">>)
\* a 5-property object of primitives
FullRepo ==
    Obj(<<P("id", Num), P("name", Str), P("url", Str), P("private", Prim("boolean")),
          P("stars", Num)>>, <<"id", "name">>)
\* an enum of two literals
Kind == EnumOf(<<"a", "b">>)

Endpoint(operationId, parameters, body, responses) ==
    [operationId |-> operationId, parameters |-> parameters, body |-> body,
     responses |-> responses]
Param(name, in, schema, required) ==
    [name |-> name, in |-> in, schema |-> schema, required |-> required]
Json(status, schema) == [status |-> status, schema |-> <<schema>>]
NoContent(status) == [status |-> status, schema |-> <<>>]

Endpoints ==
    { Endpoint(<<<<"repos">>, <<"get", "repo">>>>, <<>>, <<>>, <<Json("200", Repo)>>),
      Endpoint(<<<<"repos">>, <<"create">>>>, <<>>, <<Repo>>, <<Json("201", Repo)>>),
      Endpoint(<<<<"users">>, <<"get">>>>, <<>>, <<>>, <<Json("200", Owner)>>),
      Endpoint(<<<<"users">>, <<"list">>>>, <<>>, <<>>, <<Json("200", Arr(Owner))>>),
      Endpoint(<<<<"users">>, <<"create">>>>, <<>>, <<>>, <<Json("201", OwnerPerm)>>),
      Endpoint(<<<<"orgs">>, <<"get">>>>, <<>>, <<>>, <<Json("200", Org)>>),
      Endpoint(<<<<"tags">>, <<"list">>>>,
               <<Param("kinds", "query", Arr(Kind), FALSE)>>, <<>>, <<Json("200", Str)>>),
      Endpoint(<<<<"tags">>, <<"create">>>>, <<>>, <<>>, <<Json("200", Str)>>),
      Endpoint(<<<<"tags">>, <<"delete">>>>,
               <<Param("ids", "query", Arr(Owner), TRUE)>>, <<>>,
               <<NoContent("204"), Json("404", Owner)>>),
      Endpoint(<<<<"repos">>, <<"fork">>>>, <<>>, <<>>, <<Json("201", FullRepo)>>),
      Endpoint(<<<<"repos">>, <<"get", "full">>>>, <<>>, <<>>, <<Json("200", FullRepo)>>),
      Endpoint(<<<<"teams">>, <<"get">>>>, <<>>, <<>>, <<Json("200", Owner)>>),
      Endpoint(<<<<"teams">>, <<"get", "team">>>>, <<>>, <<>>, <<Json("200", Team)>>),
      Endpoint(<<<<"pairs">>, <<"get", "pair">>>>, <<>>, <<>>, <<Json("200", PairHolder)>>) }

\* named-schema registries of the specification (components/schemas)
Registries ==
    { <<>>,
      <<P("User", Owner)>>,
      <<P("Pair", Pair)>>,
      <<P("Repository", Repo)>>,
      <<P("Repository", FullRepo)>>,
      <<P("NestedType1", Owner)>> }

\* OpenAPIParser.parse: the endpoints, and components.schemas = the name index
ParseSpec(endpoints, registry) ==
    [endpoints |-> endpoints,
     components |-> ExtractComponentNames(registry, EmptyMap)]

\* operation lists of at most MaxOps endpoints; an operationId occurs once in
\* a specification
OperationLists ==
    {es \in SeqsUpTo(Endpoints, MaxOps) :
        \A i, j \in 1..Len(es) : es[i].operationId = es[j].operationId => i = j}

\* the schema nodes of a schema: itself, its array items, its property values
RECURSIVE SubSchemas(_)
SubSchemas(s) ==
    {s}
    \cup (IF s.items # <<>> THEN SubSchemas(s.items[1]) ELSE {})
    \cup UNION {SubSchemas(s.props[i].schema) : i \in 1..Len(s.props)}

\* the schema nodes of an operation: parameters, request body, responses
EndpointSchemas(e) ==
    UNION {SubSchemas(e.parameters[i].schema) : i \in 1..Len(e.parameters)}
    \cup UNION {SubSchemas(e.body[i]) : i \in 1..Len(e.body)}
    \cup UNION {IF e.responses[i].schema = <<>> THEN {}
                ELSE SubSchemas(e.responses[i].schema[1]) : i \in 1..Len(e.responses)}

\* ---------------------------------------------------- cyclic object graphs
\* the property value that is the enclosing object again: the back edge of a
\* cyclic schema object
Back == Node("#")
\* a 2-property and a 3-property object that contain themselves
TreeNode == Obj(<<P("value", Str), P("parent", Back)>>, <<"value">>)
Graph == Obj(<<P("id", Num), P("label", Str), P("next", Back)>>, <<"id">>)

\* JSON.stringify(schema) throws "Converting circular structure to JSON"
StringifyThrows(s) == Back \in SubSchemas(s)

\* schemaToZodType reaches extractNestedSchema, and so JSON.stringify, with a
\* cyclic object
RECURSIVE ZodTypeThrows(_)
ZodTypeThrows(s) ==
    IF s.hasEnum THEN FALSE
    ELSE IF s.type = "array" /\ s.items # <<>>
    THEN IF s.items[1].type = "object" /\ s.items[1].hasProps
            /\ ShouldExtractNestedSchema(s.items[1])
         THEN StringifyThrows(s.items[1])
         ELSE ZodTypeThrows(s.items[1])
    ELSE IF s.type = "object" /\ s.hasProps /\ ShouldExtractNestedSchema(s)
    THEN StringifyThrows(s)
    ELSE FALSE

\* the parameter loop of a tool throws at one of its parameters
ToolThrows(tool) ==
    \E i \in 1..Len(tool.properties) : ZodTypeThrows(ParamSchema(tool.properties[i]))

\* the parameters of a tool in front of the first one that throws
RECURSIVE ParamsBeforeThrow(_)
ParamsBeforeThrow(params) ==
    IF params = <<>> THEN <<>>
    ELSE IF ZodTypeThrows(ParamSchema(params[1])) THEN <<>>
    ELSE <<params[1]>> \o ParamsBeforeThrow(Tail(params))

\* the grouping loop throws at JSON.stringify(tool.responseSchema)
GroupThrows(tools) ==
    \E i \in 1..Len(tools) :
        tools[i].responseSchema # <<>> /\ StringifyThrows(tools[i].responseSchema[1])

\* a registry entry names a schema that an operation of the specification
\* refers to
Referenced(es, reg) ==
    \A r \in 1..Len(reg) : \E i \in 1..Len(es) : reg[r].schema \in EndpointSchemas(es[i])

Requests ==
    {ParseSpec(p[1], p[2]) : p \in {q \in OperationLists \X Registries : Referenced(q[1], q[2])}}

\* ------------------------------------------------------------------ state
VARIABLES
    pc,                 \* position of generate(): idle, tools, responses, nested, zod, done
    request,            \* the GenerationRequest being served
    componentSchemas,   \* this.componentSchemas
    extractedSchemas,   \* this.extractedSchemas
    schemaCounter,      \* this.schemaCounter
    regLog,             \* the extractNestedSchema calls of this run
    specTools,          \* spec.tools
    toolViews,          \* templateData.tools
    responseSchemaMap,  \* responseSchemaMap, in insertion order
    idx,                \* index of the element the current loop is at
    snapshot,           \* Array.from(this.extractedSchemas.values()) of the current loop
    interfaces,         \* emitted type declarations (responseInterfaces, nestedInterfaces)
    zodSchemas,         \* emitted validator declarations (nestedZodSchemas)
    runs,               \* the generate() calls made on this generator, each with its position
    synth               \* the last call of a synthesizer: its input and what it returned

vars == <<pc, request, componentSchemas, extractedSchemas, schemaCounter, regLog,
          specTools, toolViews, responseSchemaMap, idx, snapshot, interfaces, zodSchemas,
          runs, synth>>

Ctx ==
    [comp |-> componentSchemas, extracted |-> extractedSchemas,
     counter |-> schemaCounter, log |-> regLog]

SetCtx(c) ==
    /\ extractedSchemas' = c.extracted
    /\ schemaCounter' = c.counter
    /\ regLog' = c.log
    /\ UNCHANGED componentSchemas

\* the generate() calls that may be in progress together on one generator
Calls == {"A", "B"}

\* a call that has not been made: phase is the await point the call is parked
\* at ("analysis", "spec", "template", "rendered"), "block" while it runs the
\* synchronous part of generateTypeScriptFiles, "returned" or "failed" at its
\* end; alone records that no other call was in progress when it was made
NotCalled ==
    [phase |-> "new", request |-> <<>>, warnings |-> <<>>, tools |-> <<>>, files |-> <<>>,
     alone |-> TRUE]

\* no synthesizer has been called: parsed tells whether the name index has
\* been built from registry, calls counts the synthesizer calls made, schema
\* and name are the arguments of the last one, type / validator the
\* expressions and typeDecl / validatorDecl the declarations it returned
NoSynthesis ==
    [parsed |-> FALSE, registry |-> <<>>, calls |-> 0, schema |-> <<>>, name |-> "",
     type |-> <<>>, validator |-> <<>>, typeDecl |-> <<>>, validatorDecl |-> <<>>]

Init ==
    /\ pc = "idle"
    /\ request = ParseSpec(<<>>, <<>>)
    /\ componentSchemas = EmptyMap
    /\ extractedSchemas = <<>>
    /\ schemaCounter = 0
    /\ regLog = <<>>
    /\ specTools = <<>>
    /\ toolViews = <<>>
    /\ responseSchemaMap = <<>>
    /\ idx = 1
    /\ snapshot = <<>>
    /\ interfaces = <<>>
    /\ zodSchemas = <<>>
    /\ runs = [c \in Calls |-> NotCalled]
    /\ synth = NoSynthesis

\* generate(): reset of the run state, then createMCPSpec
Generate(req) ==
    /\ pc = "idle"
    /\ request' = req
    /\ extractedSchemas' = <<>>
    /\ schemaCounter' = 0
    /\ componentSchemas' = req.components
    /\ regLog' = <<>>
    /\ specTools' = MapEndpointToTool(req.endpoints)
    /\ toolViews' = <<>>
    /\ responseSchemaMap' = <<>>
    /\ snapshot' = <<>>
    /\ interfaces' = <<>>
    /\ zodSchemas' = <<>>
    /\ idx' = 1
    /\ pc' = "tools"

\* the template entry of a tool
ToolView(tool, endpoint, zods) ==
    [name |-> tool.name, parameters |-> zods, endpoint |-> endpoint,
     responseTypeName |->
         IF endpoint # <<>> /\ ResponseSchemaOf(endpoint[1]) # <<>>
         THEN GetResponseTypeName(endpoint[1]) ELSE "",
     responseSchema |-> IF endpoint = <<>> THEN <<>> ELSE ResponseSchemaOf(endpoint[1])]

\* the entry of a tool joins templateData.tools; the generator fields take
\* the values its parameters' synthesis left
EmitToolView(tool, endpoint, params) ==
    /\ toolViews' = Append(toolViews, ToolView(tool, endpoint, params.zods))
    /\ SetCtx(params.ctx)

\* generateTypeScriptFiles: one callback of spec.tools.map
ToolStep ==
    /\ pc = "tools"
    /\ idx <= Len(specTools)
    /\ ~ToolThrows(specTools[idx])
    /\ EmitToolView(specTools[idx],
                    FindEndpointForTool(specTools[idx].name, request.endpoints),
                    ParamZodTypes(Ctx, specTools[idx].properties))
    /\ idx' = idx + 1
    /\ UNCHANGED <<pc, request, specTools, responseSchemaMap, snapshot, interfaces, zodSchemas>>

\* the loop that fills responseSchemaMap
RECURSIVE GroupBySchema(_, _)
GroupBySchema(tools, map) ==
    IF tools = <<>> THEN map
    ELSE LET tool == tools[1]
         IN  IF tool.responseSchema = <<>> THEN GroupBySchema(Tail(tools), map)
             ELSE LET schemaKey == Stringify(tool.responseSchema[1])
                  IN  GroupBySchema(Tail(tools),
                        IF \E i \in 1..Len(map) : map[i].key = schemaKey
                        THEN [i \in 1..Len(map) |->
                                 IF map[i].key = schemaKey
                                 THEN [map[i] EXCEPT !.names = Append(@, tool.responseTypeName)]
                                 ELSE map[i]]
                        ELSE Append(map, [key |-> schemaKey,
                                          names |-> <<tool.responseTypeName>>,
                                          schema |-> tool.responseSchema[1]]))

GroupResponses ==
    /\ pc = "tools"
    /\ idx > Len(specTools)
    /\ ~GroupThrows(toolViews)
    /\ responseSchemaMap' = GroupBySchema(toolViews, <<>>)
    /\ pc' = "responses"
    /\ idx' = 1
    /\ UNCHANGED <<request, componentSchemas, extractedSchemas, schemaCounter, regLog,
                   specTools, toolViews, snapshot, interfaces, zodSchemas>>

\* the aliases of a group, each referring to the group's first name
AliasToFirst(names, referenceName, key) ==
    LET kept == SelectSeq(names, LAMBDA n : n # referenceName)
    IN  [i \in 1..Len(kept) |->
            Decl("alias", kept[i], <<>>, <<TRef(names[1])>>, key, "response")]

RECURSIVE AliasDecls(_, _, _)
AliasDecls(names, referenceName, key) ==
    IF names = <<>> THEN <<>>
    ELSE (IF names[1] # referenceName
          THEN <<Decl("alias", names[1], <<>>, <<TRef(referenceName)>>, key, "response")>>
          ELSE <<>>)
         \o AliasDecls(Tail(names), referenceName, key)

\* the interface of a group (when it has one) followed by its aliases
GroupDecls(iface, namesToAlias, referenceName, schemaKey) ==
    Emitted(iface.decl \o AliasDecls(namesToAlias, referenceName, schemaKey), iface.ctx)

\* names[0] whatever the component name
FirstDefaultName(componentName, names) == names[1]

\* componentName || names[0]
CanonicalName(componentName, names) ==
    IF componentName # "" THEN componentName ELSE names[1]

\* extractedName || canonicalName
ReferenceName(extracted, schemaKey, canonicalName) ==
    IF Has(extracted, schemaKey) /\ Get(extracted, schemaKey).name # ""
    THEN Get(extracted, schemaKey).name
    ELSE canonicalName

\* the interface of a group, unless its fingerprint is already in the table
GroupInterface(ctx, group, schemaKey, canonicalName) ==
    IF ~Has(ctx.extracted, schemaKey)
    THEN GenerateInterface(ctx, canonicalName, group.schema, "response")
    ELSE Emitted(<<>>, ctx)

\* the callback with namesToAlias = names.slice(1) in every case
ResponseGroupAliasTail(ctx, group) ==
    LET schemaKey == Stringify(group.schema)
        canonicalName == CanonicalName(ComponentNameOf(ctx.comp, schemaKey), group.names)
    IN  GroupDecls(GroupInterface(ctx, group, schemaKey, canonicalName),
                   Tail(group.names),
                   ReferenceName(ctx.extracted, schemaKey, canonicalName),
                   schemaKey)

\* the callback that turns one responseSchemaMap entry into its interface and aliases
ResponseGroup(ctx, group) ==
    LET schemaKey == Stringify(group.schema)
        canonicalName == CanonicalName(ComponentNameOf(ctx.comp, schemaKey), group.names)
    IN  GroupDecls(GroupInterface(ctx, group, schemaKey, canonicalName),
                   IF Has(ctx.extracted, schemaKey) THEN group.names
                   ELSE IF ComponentNameOf(ctx.comp, schemaKey) # "" THEN group.names
                   ELSE Tail(group.names),
                   ReferenceName(ctx.extracted, schemaKey, canonicalName),
                   schemaKey)

\* the declarations of r join the emitted type declarations
EmitInterfaces(r) ==
    /\ interfaces' = interfaces \o r.decl
    /\ SetCtx(r.ctx)

\* the declarations of r join the emitted validator declarations
EmitZodSchemas(r) ==
    /\ zodSchemas' = zodSchemas \o r.decl
    /\ SetCtx(r.ctx)

ResponseInterface ==
    /\ pc = "responses"
    /\ idx <= Len(responseSchemaMap)
    /\ EmitInterfaces(ResponseGroup(Ctx, responseSchemaMap[idx]))
    /\ idx' = idx + 1
    /\ UNCHANGED <<pc, request, specTools, toolViews, responseSchemaMap, snapshot, zodSchemas>>

\* Array.from(this.extractedSchemas.values()) before the nested interfaces
SnapshotNested ==
    /\ pc = "responses"
    /\ idx > Len(responseSchemaMap)
    /\ snapshot' = extractedSchemas
    /\ pc' = "nested"
    /\ idx' = 1
    /\ UNCHANGED <<request, componentSchemas, extractedSchemas, schemaCounter, regLog,
                   specTools, toolViews, responseSchemaMap, interfaces, zodSchemas>>

\* one callback of the nestedInterfaces map
NestedInterface ==
    /\ pc = "nested"
    /\ idx <= Len(snapshot)
    /\ EmitInterfaces(GenerateInterface(Ctx, snapshot[idx].name, snapshot[idx].schema, "nested"))
    /\ idx' = idx + 1
    /\ UNCHANGED <<pc, request, specTools, toolViews, responseSchemaMap, snapshot, zodSchemas>>

\* Array.from(this.extractedSchemas.values()) before the nested Zod schemas
SnapshotZod ==
    /\ pc = "nested"
    /\ idx > Len(snapshot)
    /\ snapshot' = extractedSchemas
    /\ pc' = "zod"
    /\ idx' = 1
    /\ UNCHANGED <<request, componentSchemas, extractedSchemas, schemaCounter, regLog,
                   specTools, toolViews, responseSchemaMap, interfaces, zodSchemas>>

\* one callback of the nestedZodSchemas map
NestedZod ==
    /\ pc = "zod"
    /\ idx <= Len(snapshot)
    /\ EmitZodSchemas(GenerateZodSchema(Ctx, snapshot[idx].name, snapshot[idx].schema))
    /\ idx' = idx + 1
    /\ UNCHANGED <<pc, request, specTools, toolViews, responseSchemaMap, snapshot, interfaces>>

\* the template is rendered and the files are returned
Finish ==
    /\ pc = "zod"
    /\ idx > Len(snapshot)
    /\ pc' = "done"
    /\ UNCHANGED <<request, componentSchemas, extractedSchemas, schemaCounter, regLog,
                   specTools, toolViews, responseSchemaMap, idx, snapshot, interfaces,
                   zodSchemas>>

\* one generate() call on a fresh generator, from its reset to the rendering
\* of the template
Next ==
    \/ \E req \in Requests : Generate(req) /\ UNCHANGED <<runs, synth>>
    \/ ToolStep /\ UNCHANGED <<runs, synth>>
    \/ GroupResponses /\ UNCHANGED <<runs, synth>>
    \/ ResponseInterface /\ UNCHANGED <<runs, synth>>
    \/ SnapshotNested /\ UNCHANGED <<runs, synth>>
    \/ NestedInterface /\ UNCHANGED <<runs, synth>>
    \/ SnapshotZod /\ UNCHANGED <<runs, synth>>
    \/ NestedZod /\ UNCHANGED <<runs, synth>>
    \/ Finish /\ UNCHANGED <<runs, synth>>

Spec == Init /\ [][Next]_vars

\* ------------------------------------------- generate() calls on one generator
\* a GenerationRequest: the parsed specification, options.language ("" when
\* the option is absent) and what is structurally broken in apiSchema:
\* "endpoints" (apiSchema.endpoints is no array), "index"
\* (components.schemas is no record of names) or "none"
GenerationRequest(endpoints, registry, language, malformed) ==
    [endpoints |-> endpoints,
     components |-> ExtractComponentNames(registry, EmptyMap),
     language |-> language,
     malformed |-> malformed]

UsersGet == Endpoint(<<<<"users">>, <<"get">>>>, <<>>, <<>>, <<Json("200", Owner)>>)
OrgsGet == Endpoint(<<<<"orgs">>, <<"get">>>>, <<>>, <<>>, <<Json("200", Org)>>)
\* a cyclic response, a cyclic object parameter, an array parameter of cyclic items
NodesGet == Endpoint(<<<<"nodes">>, <<"get">>>>, <<>>, <<>>, <<Json("200", TreeNode)>>)
NodesFind ==
    Endpoint(<<<<"nodes">>, <<"find">>>>,
             <<Param("filter", "query", TreeNode, FALSE)>>, <<>>, <<Json("200", Str)>>)
NodesLink ==
    Endpoint(<<<<"nodes">>, <<"link">>>>,
             <<Param("path", "query", Arr(Graph), TRUE)>>, <<>>, <<NoContent("204")>>)

\* operationId "users-get": its tool name users_get is that of "users/get"
UsersGetById ==
    Endpoint(<<<<"users", "get">>>>,
             <<Param("id", "path", Str, TRUE)>>, <<>>, <<Json("200", Repo)>>)
\* an operation whose parameter synthesis registers a schema
OwnersDelete ==
    Endpoint(<<<<"users">>, <<"delete">>>>,
             <<Param("ids", "query", Arr(Owner), TRUE)>>, <<>>, <<NoContent("204")>>)

GenerationRequests ==
    { GenerationRequest(<<UsersGet>>, <<P("User", Owner)>>, "typescript", "none"),
      GenerationRequest(<<OrgsGet>>, <<>>, "", "none"),
      GenerationRequest(<<NodesGet>>, <<>>, "typescript", "none"),
      GenerationRequest(<<NodesFind>>, <<>>, "typescript", "none"),
      GenerationRequest(<<NodesLink>>, <<>>, "typescript", "none"),
      GenerationRequest(<<OwnersDelete, NodesGet>>, <<>>, "typescript", "none"),
      GenerationRequest(<<UsersGet, UsersGetById>>, <<>>, "typescript", "none"),
      GenerationRequest(<<UsersGet>>, <<P("User", Owner)>>, "python", "none"),
      GenerationRequest(<<UsersGet>>, <<P("User", Owner)>>, "go", "none"),
      GenerationRequest(<<UsersGet>>, <<P("User", Owner)>>, "typescript", "endpoints"),
      GenerationRequest(<<UsersGet>>, <<P("User", Owner)>>, "typescript", "index") }

\* request.apiSchema.components?.schemas || {} as the lookups
\* this.componentSchemas[schemaKey] read it: a value that is no record of
\* names (a number, an array) answers every fingerprint with undefined
ComponentSchemasOf(req) ==
    IF req.malformed = "index" THEN EmptyMap ELSE req.components

\* request.options?.language || TargetLanguage.TypeScript
LanguageOf(req) == IF req.language = "" THEN "typescript" ELSE req.language

\* JSON.stringify(apiSchema) of analyzeSchema throws
ApiSchemaCyclic(req) ==
    \E i \in 1..Len(req.endpoints) : Back \in EndpointSchemas(req.endpoints[i])

CircularWarning == "Schema contains circular references - manual review recommended"

\* what the await of analyzeSchema yields: the catch branch's warning for a
\* cyclic apiSchema, else whatever gemini.analyzeSchema settles with (a list
\* of security concerns, or a rejection)
GeminiOutcomes ==
    {[rejected |-> FALSE, securityConcerns |-> <<>>],
     [rejected |-> FALSE, securityConcerns |-> <<"Endpoint without authentication">>],
     [rejected |-> TRUE, securityConcerns |-> <<>>]}
CatchOutcome == [rejected |-> FALSE, securityConcerns |-> <<CircularWarning>>]
AnalysisOutcomes(req) ==
    IF ApiSchemaCyclic(req) THEN {CatchOutcome} ELSE GeminiOutcomes

\* no call is inside a synchronous stretch of generateTypeScriptFiles
Quiescent == pc \in {"idle", "done"}

\* the call that is inside the synchronous stretch
Running == CHOOSE c \in Calls : runs[c].phase = "block"

\* the position of call c becomes ph
MoveTo(c, ph) == runs' = [runs EXCEPT ![c].phase = ph]

\* every call other than c has settled or has not been made
NoneInProgress(c) ==
    \A d \in Calls \ {c} : runs[d].phase \in {"new", "returned", "failed"}

\* generate() without the reset of the generator fields
CallWithoutReset(c, req) ==
    /\ Quiescent
    /\ runs[c].phase = "new"
    /\ componentSchemas' = ComponentSchemasOf(req)
    /\ runs' = [runs EXCEPT ![c] =
                   [NotCalled EXCEPT !.phase = "analysis", !.request = req,
                                     !.alone = NoneInProgress(c)]]
    /\ UNCHANGED <<pc, request, extractedSchemas, schemaCounter, regLog, specTools,
                   toolViews, responseSchemaMap, idx, snapshot, interfaces, zodSchemas>>

\* generate(): the reset of the generator fields, up to the await of analyzeSchema
Call(c, req) ==
    /\ Quiescent
    /\ runs[c].phase = "new"
    /\ extractedSchemas' = <<>>
    /\ schemaCounter' = 0
    /\ componentSchemas' = ComponentSchemasOf(req)
    /\ regLog' = <<>>
    /\ runs' = [runs EXCEPT ![c] =
                   [NotCalled EXCEPT !.phase = "analysis", !.request = req,
                                     !.alone = NoneInProgress(c)]]
    /\ UNCHANGED <<pc, request, specTools, toolViews, responseSchemaMap, idx, snapshot,
                   interfaces, zodSchemas>>

\* generate() resumes with the analysis and calls createMCPSpec, whose
\* apiSchema.endpoints.map throws on a broken operation list; the catch of
\* generate() turns every error into one GenerationError
Analyzed(c, out) ==
    /\ Quiescent
    /\ runs[c].phase = "analysis"
    /\ out \in AnalysisOutcomes(runs[c].request)
    /\ runs' = [runs EXCEPT ![c] =
                   IF out.rejected \/ runs[c].request.malformed = "endpoints"
                   THEN [@ EXCEPT !.phase = "failed"]
                   ELSE [@ EXCEPT !.phase = "spec",
                                  !.warnings = out.securityConcerns,
                                  !.tools = MapEndpointToTool(runs[c].request.endpoints)]]
    /\ UNCHANGED <<pc, request, componentSchemas, extractedSchemas, schemaCounter, regLog,
                   specTools, toolViews, responseSchemaMap, idx, snapshot, interfaces,
                   zodSchemas>>

\* generateFiles: the switch on the language; generateTypeScriptFiles runs up
\* to its first await (loadTemplate), generatePythonFiles and the default
\* branch throw
GenerateFiles(c) ==
    /\ Quiescent
    /\ runs[c].phase = "spec"
    /\ MoveTo(c, IF LanguageOf(runs[c].request) = "typescript" THEN "template" ELSE "failed")
    /\ UNCHANGED <<pc, request, componentSchemas, extractedSchemas, schemaCounter, regLog,
                   specTools, toolViews, responseSchemaMap, idx, snapshot, interfaces,
                   zodSchemas>>

\* generateTypeScriptFiles resumes after loadTemplate: its locals are fresh,
\* the generator fields are whatever they are by now
TemplateLoaded(c) ==
    /\ Quiescent
    /\ runs[c].phase = "template"
    /\ MoveTo(c, "block")
    /\ request' = runs[c].request
    /\ specTools' = runs[c].tools
    /\ toolViews' = <<>>
    /\ responseSchemaMap' = <<>>
    /\ snapshot' = <<>>
    /\ interfaces' = <<>>
    /\ zodSchemas' = <<>>
    /\ idx' = 1
    /\ pc' = "tools"
    /\ UNCHANGED <<componentSchemas, extractedSchemas, schemaCounter, regLog>>

\* a callback of spec.tools.map throws: the parameters in front of the
\* throwing one have been synthesized
ToolStepThrows ==
    /\ pc = "tools"
    /\ idx <= Len(specTools)
    /\ ToolThrows(specTools[idx])
    /\ SetCtx(ParamZodTypes(Ctx, ParamsBeforeThrow(specTools[idx].properties)).ctx)
    /\ pc' = "idle"
    /\ MoveTo(Running, "failed")
    /\ UNCHANGED <<request, specTools, toolViews, responseSchemaMap, idx, snapshot,
                   interfaces, zodSchemas>>

\* the grouping loop throws
GroupResponsesThrows ==
    /\ pc = "tools"
    /\ idx > Len(specTools)
    /\ GroupThrows(toolViews)
    /\ pc' = "idle"
    /\ MoveTo(Running, "failed")
    /\ UNCHANGED <<request, componentSchemas, extractedSchemas, schemaCounter, regLog,
                   specTools, toolViews, responseSchemaMap, idx, snapshot, interfaces,
                   zodSchemas>>

\* the template is rendered with the declarations of the synchronous stretch
Rendered ==
    /\ Finish
    /\ runs' = [runs EXCEPT ![Running] =
                   [@ EXCEPT !.phase = "rendered",
                             !.files = [tools |-> toolViews,
                                        interfaces |-> interfaces,
                                        zodSchemas |-> zodSchemas]]]

\* the remaining awaits (other templates, formatFiles) are over: generate()
\* returns {success: true, files, warnings: analysis.securityConcerns}
Return(c) ==
    /\ Quiescent
    /\ runs[c].phase = "rendered"
    /\ MoveTo(c, "returned")
    /\ UNCHANGED <<pc, request, componentSchemas, extractedSchemas, schemaCounter, regLog,
                   specTools, toolViews, responseSchemaMap, idx, snapshot, interfaces,
                   zodSchemas>>

\* generate() calls on one generator, interleaved at their await points
GenerateNext ==
    \/ \E c \in Calls : \E req \in GenerationRequests : Call(c, req) /\ UNCHANGED synth
    \/ \E c \in Calls : \E out \in GeminiOutcomes \cup {CatchOutcome} :
           Analyzed(c, out) /\ UNCHANGED synth
    \/ \E c \in Calls : GenerateFiles(c) /\ UNCHANGED synth
    \/ \E c \in Calls : TemplateLoaded(c) /\ UNCHANGED synth
    \/ ToolStep /\ UNCHANGED <<runs, synth>>
    \/ ToolStepThrows /\ UNCHANGED synth
    \/ GroupResponses /\ UNCHANGED <<runs, synth>>
    \/ GroupResponsesThrows /\ UNCHANGED synth
    \/ ResponseInterface /\ UNCHANGED <<runs, synth>>
    \/ SnapshotNested /\ UNCHANGED <<runs, synth>>
    \/ NestedInterface /\ UNCHANGED <<runs, synth>>
    \/ SnapshotZod /\ UNCHANGED <<runs, synth>>
    \/ NestedZod /\ UNCHANGED <<runs, synth>>
    \/ Rendered /\ UNCHANGED synth
    \/ \E c \in Calls : Return(c) /\ UNCHANGED synth

GenerateSpec == Init /\ [][GenerateNext]_vars

\* ------------------------------------------ the synthesizers, call by call
Nullable(s) == [s EXCEPT !.nullable = TRUE]
\* a 3-property object with a required nullable property
Profile ==
    Obj(<<P("id", Num), P("nick", Nullable(Str)), P("bio", Str)>>, <<"id", "nick">>)

\* the schemas the synthesizers are called with: primitives, enums (one with
\* a repeated literal, one empty), arrays, objects below and above the
\* extraction threshold, an object without properties, an array without items
SynthSchemas ==
    { Str, Kind, EnumOf(<<"a", "b", "a">>), EnumOf(<<>>),
      Arr(Str), Arr(Owner), Owner, Pair, PairHolder, Profile,
      Node("object"), Node("array") }

\* the named-schema registries the name index is built from: the last one
\* names one schema twice
SynthRegistries ==
    { <<>>,
      <<P("User", Owner)>>,
      <<P("User", Owner), P("Account", Owner)>> }

\* OpenAPIParser.extractComponentNames builds the name index the generator
\* reads as this.componentSchemas
ExtractComponents(registry) ==
    /\ ~synth.parsed
    /\ componentSchemas' = ExtractComponentNames(registry, EmptyMap)
    /\ synth' = [synth EXCEPT !.parsed = TRUE, !.registry = registry]
    /\ UNCHANGED <<pc, request, extractedSchemas, schemaCounter, regLog, specTools,
                   toolViews, responseSchemaMap, idx, snapshot, interfaces, zodSchemas,
                   runs>>

\* the call is recorded with what the two synthesizers returned for s; the
\* generator fields take the values the second one left
Synthesized(s, ts, zod) ==
    /\ synth' = [synth EXCEPT !.calls = @ + 1, !.schema = <<s>>, !.name = "",
                              !.type = <<ts.t>>, !.validator = <<zod.t>>,
                              !.typeDecl = <<>>, !.validatorDecl = <<>>]
    /\ SetCtx(zod.ctx)

\* schemaToZodType(s) once schemaToTypeScript(s) has returned ts
SynthesizeValidator(s, ts) == Synthesized(s, ts, SchemaToZodType(ts.ctx, s))

\* schemaToTypeScript(s), then schemaToZodType(s)
Synthesize(s) ==
    /\ synth.parsed
    /\ synth.calls < MaxSynth
    /\ SynthesizeValidator(s, SchemaToTypeScript(Ctx, s))
    /\ UNCHANGED <<pc, request, specTools, toolViews, responseSchemaMap, idx, snapshot,
                   interfaces, zodSchemas, runs>>

\* the call is recorded with the two declarations of s under name
Declared(name, s, iface, zod) ==
    /\ synth' = [synth EXCEPT !.calls = @ + 1, !.schema = <<s>>, !.name = name,
                              !.type = <<>>, !.validator = <<>>,
                              !.typeDecl = iface.decl, !.validatorDecl = zod.decl]
    /\ SetCtx(zod.ctx)

\* generateZodSchema(name, s) once generateInterface(name, s) has returned iface
DeclareValidator(name, s, iface) ==
    Declared(name, s, iface, GenerateZodSchema(iface.ctx, name, s))

\* generateInterface(name, s), then generateZodSchema(name, s)
Declare(name, s) ==
    /\ synth.parsed
    /\ synth.calls < MaxSynth
    /\ DeclareValidator(name, s, GenerateInterface(Ctx, name, s, "nested"))
    /\ UNCHANGED <<pc, request, specTools, toolViews, responseSchemaMap, idx, snapshot,
                   interfaces, zodSchemas, runs>>

\* the name index is built, then the synthesizers are called on one
\* generator, schema after schema
SynthesisNext ==
    \/ \E registry \in SynthRegistries : ExtractComponents(registry)
    \/ \E s \in SynthSchemas : Synthesize(s)
    \/ \E s \in SynthSchemas : Declare("Item", s)

SynthesisSpec == Init /\ [][SynthesisNext]_vars

\* ------------------------------------------------------ views of a state
TableIdx == 1..Len(extractedSchemas)
LogIdx == 1..Len(regLog)
GroupIdx == 1..Len(responseSchemaMap)
IfaceIdx == 1..Len(interfaces)
ZodIdx == 1..Len(zodSchemas)
\* indices of the structural type declarations (interface or array type)
StructuralIdx == {i \in IfaceIdx : interfaces[i].kind \in {"interface", "type"}}
AliasIdx == {i \in IfaceIdx : interfaces[i].kind = "alias"}
\* every <<key, schema>> pair the run has fingerprinted so far
Fingerprinted ==
    {<<extractedSchemas[i].key, extractedSchemas[i].schema>> : i \in TableIdx}
    \cup {<<responseSchemaMap[i].key, responseSchemaMap[i].schema>> : i \in GroupIdx}

\* ------------------------------------------------------------------- C1
\* C1: any two structurally equal schemas that the run fingerprints (table
\* entries, response groups) have the same fingerprint, whatever the
\* insertion order of their properties and of `required`.
C1_StructurallyEqualSameFingerprint ==
    \A a, b \in Fingerprinted : StructEq(a[2], b[2]) => a[1] = b[1]

\* ------------------------------------------------------------------- C2
\* C2: two extractNestedSchema calls with the same fingerprint return the
\* same name, the later one changes neither table nor counter, and the table
\* holds exactly one entry for every fingerprint that was registered.
C2_SameFingerprintSameEntry ==
    /\ \A i, j \in LogIdx :
          regLog[i].key = regLog[j].key =>
              /\ regLog[i].name = regLog[j].name
              /\ (i < j => ~regLog[j].changed)
    /\ \A i \in LogIdx :
          Cardinality({e \in TableIdx : extractedSchemas[e].key = regLog[i].key}) = 1

\* a fingerprint was registered a second time
C2_Witness ==
    \E i, j \in LogIdx : i < j /\ regLog[i].key = regLog[j].key

\* ------------------------------------------------------------------- C3
\* C3: two Type Table entries with distinct fingerprints never have the same
\* name.
C3_DistinctFingerprintsDistinctNames ==
    \A i, j \in TableIdx :
        extractedSchemas[i].key # extractedSchemas[j].key
            => extractedSchemas[i].name # extractedSchemas[j].name

\* ------------------------------------------------------------------- C4
\* C4: after a run every name an emitted type or alias declaration refers to
\* is declared by an emitted type or alias declaration, and every validator
\* constant a validator declaration refers to is declared by a validator
\* declaration.
DeclaredTypeNames == {interfaces[i].name : i \in IfaceIdx}
DeclaredValidatorNames == {zodSchemas[i].name : i \in ZodIdx}
C4_NoDanglingReferences ==
    pc = "done" =>
        /\ \A i \in IfaceIdx : DeclRefs(interfaces[i]) \subseteq DeclaredTypeNames
        /\ \A i \in ZodIdx : DeclRefs(zodSchemas[i]) \subseteq DeclaredValidatorNames

\* ------------------------------------------------------------------- C5
\* C5: after a run, every name schemaToTypeScript returned as a reference
\* has exactly one validator declaration, and no two validator declarations
\* give different content to one name.
ReferencedByTypes == UNION {DeclRefs(interfaces[i]) : i \in StructuralIdx}
C5_OneValidatorPerReference ==
    pc = "done" =>
        /\ \A n \in ReferencedByTypes :
              Cardinality({i \in ZodIdx : zodSchemas[i].name = SchemaConst(n)}) = 1
        /\ \A i, j \in ZodIdx :
              zodSchemas[i].name = zodSchemas[j].name => zodSchemas[i] = zodSchemas[j]

C7_OneStructuralDeclaration ==
    pc = "done" =>
        \A i, j \in StructuralIdx : interfaces[i].key = interfaces[j].key => i = j

\* ------------------------------------------------------------------- C8
\* C8: a schema whose fingerprint is a key of the component name index is
\* named by the index entry wherever it is registered (table entry, name
\* returned by extractNestedSchema) and wherever it is a response group's
\* canonical name (structural response declaration, alias target).
C8_ComponentNameWins ==
    /\ \A e \in TableIdx :
          ComponentNameOf(componentSchemas, extractedSchemas[e].key) # ""
              => extractedSchemas[e].name = componentSchemas[extractedSchemas[e].key]
    /\ \A l \in LogIdx :
          ComponentNameOf(componentSchemas, regLog[l].key) # ""
              => regLog[l].name = componentSchemas[regLog[l].key]
    /\ \A i \in IfaceIdx :
          ComponentNameOf(componentSchemas, interfaces[i].key) # "" =>
              IF interfaces[i].kind = "alias"
              THEN interfaces[i].target = <<TRef(componentSchemas[interfaces[i].key])>>
              ELSE interfaces[i].name = componentSchemas[interfaces[i].key]

\* a component-named schema met twice by the synthesizer and once as a response
C8_Witness ==
    /\ \E i, j \in LogIdx :
          /\ i < j
          /\ regLog[i].key = regLog[j].key
          /\ ComponentNameOf(componentSchemas, regLog[i].key) # ""
    /\ \E a \in AliasIdx : ComponentNameOf(componentSchemas, interfaces[a].key) # ""

\* ------------------------------------------------------------- C9, C10
IsObject(s) == s.type = "object" /\ s.hasProps /\ ~s.hasEnum
SchemaOf(key) == (CHOOSE p \in Fingerprinted : p[1] = key)[2]

\* the <<schema, expression>> pairs of a synthesis: the schema node itself
\* and, through array items and inline object fields, the nodes below it
RECURSIVE Reached(_, _)
Reached(s, t) ==
    {<<s, t>>}
    \cup (IF t.kind = "array" /\ s.items # <<>> /\ t.item # <<>>
          THEN Reached(s.items[1], t.item[1]) ELSE {})
    \cup (IF t.kind = "inline"
          THEN UNION {Reached(s.props[i].schema, t.fields[i].t) : i \in 1..Len(t.fields)}
          ELSE {})

\* what a declaration synthesized for the property values / array items of
\* the schema it declares
DeclPairs(d) ==
    LET s == SchemaOf(d.key)
    IN  UNION {Reached(s.props[i].schema, d.fields[i].t) : i \in 1..Len(d.fields)}
        \cup UNION {Reached(s.items[1], d.target[i].item[1]) : i \in 1..Len(d.target)}
TypePairs == UNION {DeclPairs(interfaces[i]) : i \in StructuralIdx}
ValidatorPairs == UNION {DeclPairs(zodSchemas[i]) : i \in ZodIdx}
Unnamed(s) == ComponentNameOf(componentSchemas, Stringify(s)) = ""

C10_NamedSchemaAlwaysHoisted ==
    \A p \in TypePairs \cup ValidatorPairs :
        (IsObject(p[1]) /\ ~Unnamed(p[1])) =>
            /\ Has(extractedSchemas, Stringify(p[1]))
            /\ p[2].kind = "ref"

\* ------------------------------------------------------------------ C13
\* the response group of a request of two operations that share a 5-property
\* response schema registered under the component name "Repository"
SharedRepository(g) ==
    /\ Len(request.endpoints) = 2
    /\ Len(responseSchemaMap[g].names) = 2
    /\ IsObject(responseSchemaMap[g].schema)
    /\ Len(responseSchemaMap[g].schema.props) = 5
    /\ ComponentNameOf(componentSchemas, responseSchemaMap[g].key) = "Repository"

\* the fallback names a run that emitted this much can have generated
FallbackNames ==
    {NestedTypeName(n) : n \in 1..(Len(extractedSchemas) + Len(interfaces) + 1)}

\* C13: when the two operations of a request share one 5-property response
\* schema registered under the component name "Repository", the run emits
\* exactly one declaration named "Repository", the response name of each
\* operation is an alias of "Repository", the fallback counter stays 0 and
\* no table entry or declaration has a NestedType<n> name.
C13_RepositoryDeclaredOnce ==
    pc = "done" =>
        \A g \in GroupIdx :
            SharedRepository(g) =>
                /\ Cardinality({i \in StructuralIdx : interfaces[i].name = "Repository"}) = 1
                /\ \A n \in 1..2 : \E a \in AliasIdx :
                       /\ interfaces[a].name = responseSchemaMap[g].names[n]
                       /\ interfaces[a].target = <<TRef("Repository")>>
                /\ schemaCounter = 0
                /\ \A e \in TableIdx : extractedSchemas[e].name \notin FallbackNames
                /\ \A i \in IfaceIdx : interfaces[i].name \notin FallbackNames
                /\ \A i \in ZodIdx : zodSchemas[i].name \notin {SchemaConst(n) : n \in FallbackNames}

\* a finished run of two operations sharing the "Repository" response
C13_Witness ==
    /\ pc = "done"
    /\ \E g \in GroupIdx :
          /\ SharedRepository(g)
          /\ responseSchemaMap[g].names[1] # responseSchemaMap[g].names[2]
          /\ \E i \in StructuralIdx : interfaces[i].key = responseSchemaMap[g].key

\* ------------------------------------------------------------------ C14
\* the parameters of tool view v whose schema is an array of enum items
EnumArrayParams(v) ==
    IF toolViews[v].endpoint = <<>> THEN {}
    ELSE {q \in Range(toolViews[v].endpoint[1].parameters) :
             q.schema.type = "array" /\ q.schema.items # <<>> /\ q.schema.items[1].hasEnum}

\* C14: every Type Table entry's schema is an object schema with properties,
\* and an array parameter whose items are an enum is synthesized as an inline
\* array of that enum, neither the array nor its items being registered.
C14_OnlyObjectsHoisted ==
    /\ \A e \in TableIdx :
          /\ extractedSchemas[e].schema.type = "object"
          /\ extractedSchemas[e].schema.hasProps
    /\ \A v \in 1..Len(toolViews) : \A q \in EnumArrayParams(v) :
          /\ \E z \in Range(toolViews[v].parameters) :
                /\ z.name = q.name
                /\ z.zodType = TArray(TEnum(q.schema.items[1].enum))
          /\ \A l \in LogIdx :
                regLog[l].key \notin {Stringify(q.schema), Stringify(q.schema.items[1])}
          /\ ~Has(extractedSchemas, Stringify(q.schema))
          /\ ~Has(extractedSchemas, Stringify(q.schema.items[1]))

\* a finished run with an array-of-enum parameter and a hoisted object
C14_Witness ==
    /\ pc = "done"
    /\ \E v \in 1..Len(toolViews) : \E q \in EnumArrayParams(v) :
          q.schema.items[1].enum = <<"a", "b">>
    /\ extractedSchemas # <<>>

\* ------------------------------------------------------------------ C15
\* the operation has no application/json schema under status 200 or 201
NoResponseSchema(endpoint) ==
    ~\E i \in 1..Len(endpoint.responses) :
        endpoint.responses[i].status \in {"200", "201"} /\ endpoint.responses[i].schema # <<>>

\* the tool views that come from an operation without a response schema
NoContentViews ==
    {v \in 1..Len(toolViews) :
        toolViews[v].endpoint # <<>> /\ NoResponseSchema(toolViews[v].endpoint[1])}

RECURSIVE GroupedCount(_)
GroupedCount(map) ==
    IF map = <<>> THEN 0 ELSE Len(map[1].names) + GroupedCount(Tail(map))

\* C15: an operation without a response schema gets no response type name
\* and no response schema in its tool view, is a member of no response
\* group, and its default response name is declared only if another
\* operation that has a response schema bears the same default name.
C15_NoContentExcluded ==
    /\ \A v \in NoContentViews :
          /\ toolViews[v].responseTypeName = ""
          /\ toolViews[v].responseSchema = <<>>
          /\ \A i \in IfaceIdx :
                interfaces[i].name = GetResponseTypeName(toolViews[v].endpoint[1]) =>
                    \E w \in 1..Len(toolViews) \ NoContentViews :
                        toolViews[w].responseTypeName = interfaces[i].name
    /\ pc \in {"responses", "nested", "zod", "done"} =>
          /\ GroupedCount(responseSchemaMap)
                = Cardinality(1..Len(toolViews) \ NoContentViews)
          /\ \A g \in GroupIdx : "" \notin Range(responseSchemaMap[g].names)

\* a finished run of a no-content operation and an operation with a response
C15_Witness ==
    /\ pc = "done"
    /\ NoContentViews # {}
    /\ \E v \in NoContentViews : Len(toolViews[v].endpoint[1].responses) = 2
    /\ responseSchemaMap # <<>>
    /\ interfaces # <<>>

\* ------------------------------------------------------------------ C16
\* C16: once the response interfaces are being generated the Type Table
\* receives no new entry: the response pass, the nested-interface pass and
\* the validator pass leave it as the tools pass left it.
C16_TableFrozenBeforeAliasPass ==
    [][(pc \in {"responses", "nested", "zod"}) => (extractedSchemas' = extractedSchemas)
    ]_vars

\* ------------------------------------------------------------------ C17
\* C17: during a run every step keeps every Type Table entry where and as it
\* is: entries are only added behind the existing ones.
C17_EntriesOnlyAppended ==
    [][(pc # "idle") =>
          /\ Len(extractedSchemas') >= Len(extractedSchemas)
          /\ \A i \in TableIdx : extractedSchemas'[i] = extractedSchemas[i]
    ]_vars

\* a registered fingerprint was met again and another entry was added later
C17_Witness ==
    \E i, j, k \in LogIdx :
        /\ i < j /\ j < k
        /\ regLog[i].key = regLog[j].key
        /\ regLog[k].changed

\* ------------------------------------------------------------------ C19
\* the hoistable objects strictly inside schema s
HoistableInside(s) ==
    {n \in (IF s.items # <<>> THEN SubSchemas(s.items[1]) ELSE {})
            \cup UNION {SubSchemas(s.props[i].schema) : i \in 1..Len(s.props)} :
        IsObject(n) /\ ShouldExtractNestedSchema(n)}

\* C19: whenever an object is in the Type Table, every hoistable object
\* nested inside it is in the table at an earlier position (it was
\* registered, and numbered, before the outer object).
C19_InnermostRegisteredFirst ==
    \A i \in TableIdx : \A n \in HoistableInside(extractedSchemas[i].schema) :
        \E j \in TableIdx : j < i /\ extractedSchemas[j].key = Stringify(n)

\* ------------------------------------------------------------------ C20
\* C20: after a run every Type Table entry has exactly one type declaration
\* and exactly one validator declaration under its name.
C20_OneTypeAndOneValidatorPerEntry ==
    pc = "done" =>
        \A e \in TableIdx :
            /\ Cardinality({i \in StructuralIdx :
                   interfaces[i].name = extractedSchemas[e].name}) = 1
            /\ Cardinality({i \in ZodIdx :
                   zodSchemas[i].name = SchemaConst(extractedSchemas[e].name)}) = 1

\* ------------------------------------------------------------------ C11
\* call c was made with a well-formed request in which a schema contains itself
CyclicCall(c) ==
    /\ runs[c].phase # "new"
    /\ runs[c].request.malformed = "none"
    /\ LanguageOf(runs[c].request) = "typescript"
    /\ ApiSchemaCyclic(runs[c].request)

\* C11: a generate() call whose request has a cyclic schema never ends in an
\* error thrown to the caller, and the result it returns carries the
\* circular-reference warning.
C11_CyclicSchemaCompletesWithWarning ==
    \A c \in Calls :
        CyclicCall(c) =>
            /\ runs[c].phase # "failed"
            /\ (runs[c].phase = "returned" => CircularWarning \in Range(runs[c].warnings))

\* ------------------------------------------------------------------ C12
\* the fingerprints of the schemas of a request
OwnKeys(req) ==
    {Stringify(s) : s \in UNION {EndpointSchemas(req.endpoints[i]) : i \in 1..Len(req.endpoints)}}

\* the declarations rendered for call c
RenderedDecls(c) ==
    IF runs[c].files = <<>> THEN {}
    ELSE Range(runs[c].files.interfaces) \cup Range(runs[c].files.zodSchemas)

\* C12: whatever the interleaving of two generate() calls on one generator,
\* every declaration rendered for a call declares a schema of that call's
\* own request.
C12_CallsIsolated ==
    \A c \in Calls : \A d \in RenderedDecls(c) : d.key \in OwnKeys(runs[c].request)

\* ------------------------------------------------------------------ C18
\* the operation list or the name index is broken, or the target language
\* is not one generateFiles produces
InvalidInput(req) ==
    req.malformed # "none" \/ LanguageOf(req) # "typescript"

\* C18: a generate() call on a structurally invalid input never gets as far
\* as a list of files or a returned GenerationResult.
C18_InvalidInputFails ==
    \A c \in Calls :
        (runs[c].phase # "new" /\ InvalidInput(runs[c].request)) =>
            (runs[c].phase \notin {"rendered", "returned"} /\ runs[c].files = <<>>)

\* ------------------------------------------------------------------ C21
\* the validator expression that mirrors a type expression: the same
\* primitive, the same literals, the array of the mirrored item, the object
\* with the same named fields mirrored, the validator constant of the same name
RECURSIVE Mirror(_)
Mirror(t) ==
    IF t.kind = "ref" THEN [t EXCEPT !.name = SchemaConst(@)]
    ELSE IF t.kind = "array" THEN [t EXCEPT !.item = <<Mirror(t.item[1])>>]
    ELSE IF t.kind = "inline"
    THEN [t EXCEPT !.fields = [i \in 1..Len(t.fields) |-> [t.fields[i] EXCEPT !.t = Mirror(@)]]]
    ELSE t

\* C21: for every schema the validator synthesizer returns the mirror of
\* what the type synthesizer returns.
C21_ValidatorMirrorsType ==
    synth.type # <<>> => synth.validator[1] = Mirror(synth.type[1])

\* ------------------------------------------------------------------ C22
\* the name of a response group by the precedence: component name of its
\* fingerprint, else the name the Type Table has for it, else the default
\* response name of its first operation
ChosenName(g) ==
    IF ComponentNameOf(componentSchemas, g.key) # ""
    THEN ComponentNameOf(componentSchemas, g.key)
    ELSE IF Has(extractedSchemas, g.key) THEN Get(extractedSchemas, g.key).name
    ELSE g.names[1]

\* C22: the declarations a response group adds follow the precedence: its
\* interface or array type is declared under the chosen name and every one
\* of its aliases refers to the chosen name.
C22_CanonicalNamePrecedence ==
    [][(pc = "responses" /\ idx <= Len(responseSchemaMap)) =>
          \A i \in (Len(interfaces) + 1)..Len(interfaces') :
              /\ interfaces'[i].kind = "alias" =>
                     interfaces'[i].target = <<TRef(ChosenName(responseSchemaMap[idx]))>>
              /\ interfaces'[i].kind \in {"interface", "type"} =>
                     interfaces'[i].name = ChosenName(responseSchemaMap[idx])
    ]_vars

\* a run ended with an alias that refers to the fallback name the Type Table
\* held for the group's fingerprint, which has no component name
C22_Witness ==
    /\ pc = "done"
    /\ \E i \in AliasIdx :
           /\ Has(extractedSchemas, interfaces[i].key)
           /\ ComponentNameOf(componentSchemas, interfaces[i].key) = ""
           /\ interfaces[i].target = <<TRef(Get(extractedSchemas, interfaces[i].key).name)>>
           /\ Get(extractedSchemas, interfaces[i].key).name \in FallbackNames

\* ------------------------------------------------------------------ C23
\* the position of the first registry entry with the fingerprint of entry j
FirstWithFingerprint(registry, j) ==
    CHOOSE i \in 1..j :
        /\ Stringify(registry[i].schema) = Stringify(registry[j].schema)
        /\ \A k \in 1..(i - 1) :
               Stringify(registry[k].schema) # Stringify(registry[j].schema)

\* C23: the name index built from a registry maps the fingerprint of every
\* entry to the name of the first entry that has this fingerprint.
C23_FirstRegisteredNameWins ==
    synth.parsed =>
        \A j \in 1..Len(synth.registry) :
            ComponentNameOf(componentSchemas, Stringify(synth.registry[j].schema))
                = synth.registry[FirstWithFingerprint(synth.registry, j)].name

\* ------------------------------------------------------------------ C24
\* the literals of seq in source order, each kept at its first occurrence
WithoutDuplicates(seq) ==
    SelectSeq([i \in 1..Len(seq) |-> [at |-> i, v |-> seq[i]]],
              LAMBDA e : \A k \in 1..(e.at - 1) : seq[k] # e.v)

\* C24: for an enum schema both synthesizers return the union / enum check
\* of its literals in source order, every literal once.
C24_EnumLiteralsOnceInSourceOrder ==
    (synth.type # <<>> /\ synth.schema[1].hasEnum) =>
        /\ synth.type[1].kind = "enum"
        /\ synth.validator[1].kind = "enum"
        /\ \A e \in {synth.type[1], synth.validator[1]} :
               /\ Len(e.lits) = Len(WithoutDuplicates(synth.schema[1].enum))
               /\ \A i \in 1..Len(e.lits) :
                      e.lits[i] = WithoutDuplicates(synth.schema[1].enum)[i].v

\* ------------------------------------------------------------------ C25
\* a type or validator expression that is a generic primitive: no literal,
\* no field, no reference
GenericPrimitive(t) == t.kind \in {"prim", "unknown"}

\* C25: for a schema whose enum is the empty list both synthesizers return a
\* generic primitive type, not a union or enum check without literals.
C25_EmptyEnumDegrades ==
    (synth.type # <<>> /\ synth.schema[1].hasEnum /\ synth.schema[1].enum = <<>>) =>
        (GenericPrimitive(synth.type[1]) /\ GenericPrimitive(synth.validator[1]))

\* ------------------------------------------------------------------ C26
\* every field carries the optional marker exactly when its name is not in
\* the required list of s
OptionalByRequired(fields, s) ==
    \A i \in 1..Len(fields) :
        fields[i].optional = (fields[i].name \notin Range(s.required))

\* the declaration v marks the same properties optional as the declaration d
SameOptional(d, v) ==
    /\ Len(d.fields) = Len(v.fields)
    /\ \A i \in 1..Len(d.fields) :
           /\ d.fields[i].name = v.fields[i].name
           /\ d.fields[i].optional = v.fields[i].optional

\* C26: the fields of an interface declaration and of an inline object type
\* are optional exactly when they are not required, and the validator
\* declaration of a schema marks the same properties optional as its
\* interface declaration.
C26_OptionalExactlyWhenNotRequired ==
    /\ \A i \in 1..Len(synth.typeDecl) :
           synth.typeDecl[i].kind = "interface" =>
               /\ OptionalByRequired(synth.typeDecl[i].fields, synth.schema[1])
               /\ \A j \in 1..Len(synth.validatorDecl) :
                      SameOptional(synth.typeDecl[i], synth.validatorDecl[j])
    /\ (synth.type # <<>> /\ synth.type[1].kind = "inline") =>
           OptionalByRequired(synth.type[1].fields, synth.schema[1])

\* ------------------------------------------------------------------ C29
\* an object without properties or an array without items
MalformedNode(s) ==
    \/ s.type = "object" /\ ~s.hasProps
    \/ s.type = "array" /\ s.items = <<>>

\* an expression that says nothing about the value's content: unknown, a
\* record of unknown values, or an array of unknown items
Opaque(t) ==
    \/ t.kind \in {"unknown", "record"}
    \/ t.kind = "array" /\ t.item[1].kind = "unknown"

\* C29: a call of the two synthesizers on a malformed schema node returns an
\* opaque type and an opaque validator and leaves the Type Table and the
\* counter as they were.
C29_MalformedNodeIsOpaque ==
    [][(synth'.calls = synth.calls + 1 /\ synth'.type # <<>>
          /\ MalformedNode(synth'.schema[1])) =>
          /\ Opaque(synth'.type[1])
          /\ Opaque(synth'.validator[1])
          /\ extractedSchemas' = extractedSchemas
          /\ schemaCounter' = schemaCounter
    ]_vars

\* the synthesizers were called on an object without properties after a call
\* that left an entry in the Type Table
C29_Witness ==
    /\ synth.calls = 2
    /\ synth.type # <<>>
    /\ synth.schema[1] = Node("object")
    /\ synth.type[1].kind = "record"
    /\ Len(extractedSchemas) = 1

\* ------------------------------------------------------------------ C28
\* the positions of the entries of a Type Table that were given a fallback
\* name: those whose fingerprint has no component name
FallbackIdxOf(extracted) ==
    {i \in 1..Len(extracted) : ComponentNameOf(componentSchemas, extracted[i].key) = ""}

\* counter is the number of fallback-named entries of the table, and these
\* carry, in table order, the names NestedType1 .. NestedType<counter>
CounterCounts(extracted, counter) ==
    /\ counter = Cardinality(FallbackIdxOf(extracted))
    /\ \A i \in FallbackIdxOf(extracted) :
           extracted[i].name
               = NestedTypeName(Cardinality({j \in FallbackIdxOf(extracted) : j <= i}))

\* C28: every step of a run leaves the counter equal to the number of Type
\* Table entries with a fallback name, which are named NestedType1 ..
\* NestedType<counter>; no step decreases the counter, and a step that adds
\* no fallback-named entry (it registers a component-named schema, or meets
\* registered fingerprints only) leaves the counter unchanged.
C28_CounterCountsFallbackNames ==
    [][(pc # "idle") =>
          /\ CounterCounts(extractedSchemas', schemaCounter')
          /\ schemaCounter' >= schemaCounter
          /\ (FallbackIdxOf(extractedSchemas') = FallbackIdxOf(extractedSchemas)
                 => schemaCounter' = schemaCounter)
    ]_vars

\* a run registered a component-named schema and a fallback-named one
C28_Witness ==
    /\ schemaCounter >= 1
    /\ FallbackIdxOf(extractedSchemas) # {}
    /\ \E i \in TableIdx : i \notin FallbackIdxOf(extractedSchemas)

\* ------------------------------------------------------------------ C27
\* the calls made so far were made one after the other: each when no other
\* call was in progress
Sequential == \A c \in Calls : runs[c].phase # "new" => runs[c].alone

\* C27: when generate() calls follow one another on one generator, each
\* call has an empty Type Table and counter 0 from its start until its
\* synthesis begins, whatever the call before it left, and two calls with
\* the same request render the same declarations under the same names.
C27_SequentialRunsReproducible ==
    Sequential =>
        /\ \A c \in Calls :
               runs[c].phase \in {"analysis", "spec", "template"} =>
                   (extractedSchemas = <<>> /\ schemaCounter = 0)
        /\ \A c, d \in Calls :
               (runs[c].files # <<>> /\ runs[d].files # <<>>
                  /\ runs[c].request = runs[d].request) =>
                   runs[c].files = runs[d].files

\* the same request was served twice, one call after the other had returned,
\* and the declarations of both use the fallback name NestedType1
C27_Witness ==
    /\ Sequential
    /\ \A c \in Calls :
           /\ runs[c].phase = "returned"
           /\ runs[c].request.endpoints = <<OrgsGet>>
           /\ \E i \in 1..Len(runs[c].files.interfaces) :
                  runs[c].files.interfaces[i].name = "NestedType1"

\* ------------------------------------------------------------------ C30
\* C30: in the rendered template data the i-th tool is bound to the i-th
\* endpoint of the operation list, the one it was generated from: its
\* endpoint, response schema and response type name are that endpoint's.
C30_ToolBoundToItsEndpoint ==
    \A c \in Calls :
        runs[c].files # <<>> =>
            \A i \in 1..Len(runs[c].files.tools) :
                /\ runs[c].files.tools[i].endpoint = <<runs[c].request.endpoints[i]>>
                /\ runs[c].files.tools[i].responseSchema
                       = ResponseSchemaOf(runs[c].request.endpoints[i])
                /\ runs[c].files.tools[i].responseTypeName
                       = (IF ResponseSchemaOf(runs[c].request.endpoints[i]) # <<>>
                          THEN GetResponseTypeName(runs[c].request.endpoints[i]) ELSE "")

====
